---- MODULE Spec2Model ----
(***************************************************************************)
(* Model of the simulation core of swarm-mvp:                              *)
(*   gemini/schemas.py          the response contract and its validator    *)
(*   gemini/client.py           GeminiClient.generate_agent_response       *)
(*   simulations/prompts.py     the prompt builders and the social summary *)
(*   simulations/orchestrator.py  SimulationOrchestrator / run_simulation  *)
(*   simulations/models.py      the persisted records and their keys       *)
(*                                                                         *)
(* Floats in [0,1] are carried as integer hundredths (0..100).  A text is  *)
(* carried as a record with the attributes the code reads from it.        *)
(***************************************************************************)
EXTENDS Integers, Sequences, FiniteSets, TLC

\* ------------------------------------------------------------------ bounds
MaxAgents == 2      \* agents of a segment in the small configurations
MaxPhases == 2      \* length of a run's phase list in the small configurations
MaxWork == 4        \* agents x phases of a small configuration
LongAgents == 6     \* agents of the long configuration
MaxRetriesArg == 2  \* largest max_retries handed to generate_agent_response (SpecGen)
MaxBatch == 3       \* responses of a batch handed to _compute_aggregates (SpecAgg)
MaxComputes == 2    \* _compute_aggregates calls on one run (SpecAgg)
MaxExecutes == 2    \* invocations of run_simulation on one run (SpecRerun)
MaxTopics == 2      \* topics of an attitudes mapping (SpecFmt)

\* ------------------------------------------------------- program constants
MAX_RETRIES == 2        \* generate_agent_response(max_retries=2)
APPROVAL_MIN == 1       \* Field(ge=1, ...)
APPROVAL_MAX == 10      \* Field(..., le=10)
SCORE_MIN == 0          \* Field(ge=0, ...) in hundredths
SCORE_MAX == 100        \* Field(..., le=1) in hundredths
VERBATIM_MAX == 500     \* Field(max_length=500)
ERRORS_KEPT == 10       \* self.errors[-10:]
PLACEHOLDER_APPROVAL == 5   \* {'approval': 5, 'intent': 'ignore', ...}

VALID_EMOTIONS ==
    {"joy", "trust", "fear", "surprise", "sadness", "disgust", "anger", "anticipation"}

VALID_INTENTS_ANY_CASE ==
    {"share_positive", "share_negative", "engage_supportive", "engage_critical",
     "ignore", "oppose_actively", "purchase_intent", "seek_more_info",
     "Share_Positive", "IGNORE"}

VALID_INTENTS ==
    {"share_positive", "share_negative", "engage_supportive", "engage_critical",
     "ignore", "oppose_actively", "purchase_intent", "seek_more_info"}

PHASE_CHOICES == <<"D1", "D7", "D30", "D90">>

LATER_PHASES == {"D7", "D30", "D90"}

SIM_PHASES_DEFAULT == <<"D1", "D7">>

None == [none |-> TRUE]

\* ------------------------------------------------------ response contract
\* A parsed backend payload: the five contract fields.  emotions is a function
\* from the emotion keys present to hundredths; verbatim is [text, len].
AllEmotions(v) == [e \in VALID_EMOTIONS |-> v]

Payload(approval, emotions, intent, conf, vtext, vlen) ==
    [approval |-> approval, emotions |-> emotions, intent |-> intent,
     intent_confidence |-> conf, verbatim |-> [text |-> vtext, len |-> vlen]]

\* EmotionsSchema: every one of the 8 keys required, each in [0,1].
EmotionErrors(em) ==
    {e \in VALID_EMOTIONS :
        \/ e \notin DOMAIN em
        \/ em[e] < SCORE_MIN
        \/ em[e] > SCORE_MAX}

FieldErrorsNoLength(d) ==
    (IF d.approval < APPROVAL_MIN \/ d.approval > APPROVAL_MAX THEN {"approval"} ELSE {})
    \cup (IF EmotionErrors(d.emotions) # {} THEN {"emotions"} ELSE {})
    \cup (IF d.intent \notin VALID_INTENTS THEN {"intent"} ELSE {})
    \cup (IF d.intent_confidence < SCORE_MIN \/ d.intent_confidence > SCORE_MAX
            THEN {"intent_confidence"} ELSE {})

\* AgentResponseSchema: the set of offending fields of a payload.
FieldErrors(d) ==
    (IF d.approval < APPROVAL_MIN \/ d.approval > APPROVAL_MAX THEN {"approval"} ELSE {})
    \cup (IF EmotionErrors(d.emotions) # {} THEN {"emotions"} ELSE {})
    \cup (IF d.intent \notin VALID_INTENTS THEN {"intent"} ELSE {})
    \cup (IF d.intent_confidence < SCORE_MIN \/ d.intent_confidence > SCORE_MAX
            THEN {"intent_confidence"} ELSE {})
    \cup (IF d.verbatim.len > VERBATIM_MAX THEN {"verbatim"} ELSE {})

ModelDumpHalving(d) ==
    [approval |-> d.approval,
     emotions |-> [e \in VALID_EMOTIONS |-> d.emotions[e]],
     intent |-> d.intent,
     intent_confidence |-> d.intent_confidence \div 2,
     verbatim |-> d.verbatim]

\* validated.model_dump(): the declared fields only, emotions restricted to the
\* 8 declared keys.
ModelDump(d) ==
    [approval |-> d.approval,
     emotions |-> [e \in VALID_EMOTIONS |-> d.emotions[e]],
     intent |-> d.intent,
     intent_confidence |-> d.intent_confidence,
     verbatim |-> d.verbatim]

validate_defaulting_emotions(d) ==
    LET filled == [d EXCEPT !.emotions =
                      [e \in VALID_EMOTIONS \cup DOMAIN d.emotions |->
                          IF e \in DOMAIN d.emotions THEN d.emotions[e] ELSE 0]]
    IN  IF FieldErrors(filled) = {}
        THEN [is_valid |-> TRUE, data |-> ModelDump(filled), error |-> None]
        ELSE [is_valid |-> FALSE, data |-> None,
              error |-> [none |-> FALSE, fields |-> FieldErrors(filled)]]

\* validate_agent_response: (is_valid, validated_data, error_message)
validate_agent_response(d) ==
    IF FieldErrors(d) = {}
    THEN [is_valid |-> TRUE, data |-> ModelDump(d), error |-> None]
    ELSE [is_valid |-> FALSE, data |-> None,
          error |-> [none |-> FALSE, fields |-> FieldErrors(d)]]

\* ------------------------------------------------------ generation client
\* What the backend gives to one generate_content call.  form is
\*   "json"           text that json.loads parses to data
\*   "fenced"         text json.loads rejects, holding a ```json fence whose
\*                    content parses to data
\*   "fenced_garbage" text json.loads rejects, holding a ```json fence whose
\*                    content json.loads rejects too
\*   "garbage"        text json.loads rejects, holding no ```json fence
\*   "raise"          generate_content (or response.text) raises; msg is the
\*                    exception text
BackendJson(d) == [form |-> "json", data |-> d, msg |-> None]
BackendFenced(d) == [form |-> "fenced", data |-> d, msg |-> None]
BackendGarbage == [form |-> "garbage", data |-> None, msg |-> None]
BackendFencedGarbage == [form |-> "fenced_garbage", data |-> None, msg |-> None]
BackendRaise(m) == [form |-> "raise", data |-> None, msg |-> m]

\* An exception text: the text and the lower-cased keywords it contains.
ExcText(text, words) == [none |-> FALSE, text |-> text, words |-> words]

JSONDecodeErrorText == ExcText("Expecting value: line 1 column 1 (char 0)", {})

Exception(class, msg) == [none |-> FALSE, class |-> class, msg |-> msg]

\* A prompt: what a builder rendered, followed by the corrective instructions
\* appended so far (one per validation retry, each naming its error_msg).
PromptOf(base) == [base |-> base, corrections |-> <<>>]

AppendCorrectionReset(prompt, error_msg) ==
    [prompt EXCEPT !.corrections = <<error_msg>>]

AppendCorrection(prompt, error_msg) ==
    [prompt EXCEPT !.corrections = Append(@, error_msg)]

GenReturnAfterWait(data, trace) ==
    [kind |-> "return", data |-> data, exc |-> None,
     calls |-> trace.calls, prompts |-> trace.prompts,
     waits |-> Append(trace.waits, 1), events |-> Append(trace.events, "wait")]

GenReturn(data, trace) ==
    [kind |-> "return", data |-> data, exc |-> None,
     calls |-> trace.calls, prompts |-> trace.prompts, waits |-> trace.waits,
     events |-> trace.events]

GenRaise(exc, trace) ==
    [kind |-> "raise", data |-> None, exc |-> exc,
     calls |-> trace.calls, prompts |-> trace.prompts, waits |-> trace.waits,
     events |-> trace.events]

ClassifyAlwaysAPIError(msg) == Exception("GeminiAPIError", msg)

\* "quota" in error_msg.lower() or "rate" in error_msg.lower()
ClassifyAPIError(msg) ==
    IF "quota" \in msg.words \/ "rate" \in msg.words
    THEN Exception("GeminiRateLimitError", msg)
    ELSE Exception("GeminiAPIError", msg)

RECURSIVE GenLoop(_, _, _, _, _, _)
OnAPIErrorFlatWait(prompt, script, max_retries, attempt, msg, tr) ==
    IF attempt < max_retries
    THEN GenLoop(prompt, script, max_retries, attempt + 1, ClassifyAPIError(msg),
                 [tr EXCEPT !.waits = Append(@, 1),
                     !.events = Append(@, "wait")])
    ELSE GenRaise(ClassifyAPIError(msg), tr)

OnAPIErrorCorrecting(prompt, script, max_retries, attempt, msg, tr) ==
    IF attempt < max_retries
    THEN GenLoop(AppendCorrection(prompt, msg), script, max_retries, attempt + 1,
                 ClassifyAPIError(msg),
                 [tr EXCEPT !.waits = Append(@, attempt + 1),
                            !.events = Append(@, "wait")])
    ELSE GenRaise(ClassifyAPIError(msg), tr)

\* The handler `except Exception as e` of one attempt: classify, then sleep
\* retry_delay * (attempt + 1) and continue, or raise when none is left.
OnAPIError(prompt, script, max_retries, attempt, msg, tr) ==
    IF attempt < max_retries
    THEN GenLoop(prompt, script, max_retries, attempt + 1, ClassifyAPIError(msg),
                 [tr EXCEPT !.waits = Append(@, attempt + 1),
                     !.events = Append(@, "wait")])
    ELSE GenRaise(ClassifyAPIError(msg), tr)

OnParsedRaiseAtOnce(prompt, script, max_retries, attempt, data, tr) ==
    LET v == validate_agent_response(data)
    IN  IF v.is_valid
        THEN GenReturn(v.data, tr)
        ELSE GenRaise(Exception("GeminiValidationError",
                                [none |-> FALSE, text |-> "Schema validation failed",
                                 error |-> v.error]), tr)

\* After json.loads gave data: validate, return, or retry with the corrective
\* instruction after sleeping retry_delay.
OnParsed(prompt, script, max_retries, attempt, data, tr) ==
    LET v == validate_agent_response(data)
        err == Exception("GeminiValidationError",
                         [none |-> FALSE, text |-> "Schema validation failed",
                          error |-> v.error])
    IN  IF v.is_valid
        THEN GenReturn(v.data, tr)
        ELSE IF attempt < max_retries
             THEN GenLoop(AppendCorrection(prompt, v.error), script, max_retries,
                          attempt + 1, err, [tr EXCEPT !.waits = Append(@, 1),
                     !.events = Append(@, "wait")])
             ELSE GenRaise(err, tr)

GenLoopOwnBudgets(prompt, script, max_retries, attempt, last_error, trace) ==
    LET pos == trace.calls + 1
        out == script[IF pos <= Len(script) THEN pos ELSE Len(script)]
        tr == [trace EXCEPT !.calls = @ + 1, !.prompts = Append(@, prompt),
                            !.events = Append(@, "call")]
        waited == [tr EXCEPT !.waits = Append(@, 1), !.events = Append(@, "wait")]
    IN  CASE out.form \in {"raise", "fenced_garbage"} ->
               LET msg == IF out.form = "raise" THEN out.msg ELSE JSONDecodeErrorText
               IN  IF attempt < max_retries
                   THEN GenLoop(prompt, script, max_retries, attempt + 1,
                                ClassifyAPIError(msg), waited)
                   ELSE GenRaise(ClassifyAPIError(msg), tr)
          [] out.form = "garbage" ->
               GenRaise(Exception("GeminiValidationError",
                                  [none |-> FALSE, text |-> "Invalid JSON",
                                   error |-> None]), tr)
          [] OTHER ->
               LET v == validate_agent_response(out.data)
                   err == Exception("GeminiValidationError",
                                    [none |-> FALSE, text |-> "Schema validation failed",
                                     error |-> v.error])
               IN  IF v.is_valid THEN GenReturn(v.data, tr)
                   ELSE IF trace.calls - attempt < max_retries
                        THEN GenLoop(AppendCorrection(prompt, v.error), script,
                                     max_retries, attempt, err, waited)
                        ELSE GenRaise(err, tr)

\* for attempt in range(max_retries + 1): ... ; raise last_error or GeminiError
GenLoop(prompt, script, max_retries, attempt, last_error, trace) ==
    IF attempt > max_retries
    THEN GenRaise(IF last_error = None
                  THEN Exception("GeminiError",
                                 ExcText("Unknown error occurred", {}))
                  ELSE last_error, trace)
    ELSE LET out == script[attempt + 1]
             tr == [trace EXCEPT !.calls = @ + 1, !.prompts = Append(@, prompt),
                                 !.events = Append(@, "call")]
         IN  CASE out.form = "raise" ->
                    OnAPIError(prompt, script, max_retries, attempt, out.msg, tr)
               [] out.form = "garbage" ->
                    \* raise GeminiValidationError(f"Invalid JSON: {e}"), re-raised
                    \* at once by `except GeminiValidationError: raise`
                    GenRaise(Exception("GeminiValidationError",
                                       [none |-> FALSE, text |-> "Invalid JSON",
                                        error |-> None]), tr)
               [] out.form = "fenced_garbage" ->
                    \* the second json.loads raises JSONDecodeError inside the
                    \* handler: it reaches `except Exception`
                    OnAPIError(prompt, script, max_retries, attempt,
                               JSONDecodeErrorText, tr)
               [] OTHER ->
                    OnParsed(prompt, script, max_retries, attempt, out.data, tr)

\* GeminiClient.generate_agent_response(prompt, max_retries); script[i] is what
\* the backend gives to the i-th call.  waits are in units of retry_delay;
\* events is the order of the backend calls and the sleeps.
generate_agent_response(prompt, script, max_retries) ==
    GenLoop(prompt, script, max_retries, 0, None,
            [calls |-> 0, prompts |-> <<>>, waits |-> <<>>, events |-> <<>>])

\* ---------------------------------------------------------- prompt builder
Stimulus ==
    [channel |-> "social", scenario |-> "launch", sender |-> "Brand",
     context |-> "ctx", message |-> "msg"]

\* round-half-even of num/den to an integer (den > 0, num >= 0): what the
\* float formatting and round() give while the ties are exactly representable.
RoundHalfEven(num, den) ==
    LET q == num \div den
        r == num % den
    IN  IF 2 * r < den THEN q
        ELSE IF 2 * r > den THEN q + 1
        ELSE IF q % 2 = 0 THEN q ELSE q + 1

RECURSIVE SumApprovals(_)
SumApprovals(rs) ==
    IF rs = <<>> THEN 0 ELSE Head(rs).approval + SumApprovals(Tail(rs))

CountIntent(rs, intent) ==
    Len(SelectSeq(rs, LAMBDA r : r.intent = intent))

FirstTwo(rs) == IF Len(rs) <= 2 THEN rs ELSE SubSeq(rs, 1, 2)

VerbatimsOf(rs) == [i \in 1..Len(rs) |-> rs[i].verbatim]

SilentSummary == [limited |-> FALSE]

\* "Limited public discussion was observed."
LimitedDiscussion == [limited |-> TRUE]

\* build_social_summary(day1_responses); each r is [approval, intent, verbatim]
build_social_summary(rs) ==
    IF rs = <<>>
    THEN LimitedDiscussion
    ELSE LET total == SumApprovals(rs)
             n == Len(rs)
         IN  [limited |-> FALSE,
              sentiment |-> IF total >= 6 * n THEN "Positive"
                            ELSE IF total >= 4 * n THEN "Mixed" ELSE "Negative",
              avg_tenths |-> RoundHalfEven(10 * total, n),
              intents |-> [i \in {"share_positive", "share_negative",
                                  "engage_supportive", "engage_critical",
                                  "oppose_actively"} |-> CountIntent(rs, i)],
              positive_samples |->
                  VerbatimsOf(FirstTwo(SelectSeq(rs, LAMBDA r : r.approval >= 7))),
              negative_samples |->
                  VerbatimsOf(FirstTwo(SelectSeq(rs, LAMBDA r : r.approval <= 4)))]

\* A score of the attitudes mapping: a number, carried in hundredths, or
\* anything else (a text)
NumScore(h) == [num |-> TRUE, h |-> h]
TextScore(t) == [num |-> FALSE, text |-> t]

\* The hundredths h of 0..100 ending in 5 whose float lies above the midpoint
\* of its two neighbouring tenths, so that f"{score:.1f}" rounds it up
HalfwayUp == {5, 45, 55, 65, 75}

\* f"{score:.1f}" for a score of h hundredths in 0..100, in tenths
OneDecimal(h) ==
    LET q == h \div 10
        r == h % 10
    IN  IF r < 5 THEN q
        ELSE IF r > 5 THEN q + 1
        ELSE IF h \in HalfwayUp THEN q + 1 ELSE q

\* "positive" if score > 0.6 else "neutral" if score > 0.4 else "negative"
Sentiment(h) ==
    IF h > 60 THEN "positive" ELSE IF h > 40 THEN "neutral" ELSE "negative"

\* "- No specific attitudes recorded"
NoAttitudes == <<[recorded |-> FALSE]>>

\* _format_attitudes(attitudes): one line per topic, in the order of the
\* mapping; attitudes[i] is the score of the i-th topic
_format_attitudes(attitudes) ==
    IF attitudes = <<>>
    THEN NoAttitudes
    ELSE [i \in 1..Len(attitudes) |->
            IF attitudes[i].num
            THEN [recorded |-> TRUE, topic |-> i,
                  sentiment |-> Sentiment(attitudes[i].h),
                  shown |-> OneDecimal(attitudes[i].h)]
            ELSE [recorded |-> TRUE, topic |-> i, sentiment |-> None,
                  shown |-> attitudes[i].text]]

\* build_day1_prompt(agent_traits, stimulus, segment_style)
build_day1_prompt(agent_traits, stimulus) ==
    PromptOf([renderer |-> "day1",
              agent |-> [age |-> agent_traits.age,
                         openness |-> agent_traits.openness,
                         tech_savviness |-> agent_traits.tech_savviness,
                         attitudes |-> _format_attitudes(agent_traits.attitudes)],
              stimulus |-> stimulus,
              day1_response |-> None, social_summary |-> None])

\* build_day7_prompt(agent_traits, stimulus, segment_style, day1_response,
\* social_summary)
build_day7_prompt(agent_traits, stimulus, day1_response, social_summary) ==
    PromptOf([renderer |-> "day7",
              agent |-> [age |-> agent_traits.age,
                         openness |-> agent_traits.openness],
              stimulus |-> stimulus,
              day1_response |-> day1_response, social_summary |-> social_summary])

NegativePlaceholder ==
    [approval |-> APPROVAL_MIN, intent |-> "oppose_actively",
     verbatim |-> [text |-> "No initial response", len |-> 19]]

\* {'approval': 5, 'intent': 'ignore', 'verbatim': 'No initial response'}
NeutralPlaceholder ==
    [approval |-> PLACEHOLDER_APPROVAL, intent |-> "ignore",
     verbatim |-> [text |-> "No initial response", len |-> 19]]

\* -------------------------------------------------------------- aggregator
\* sorted(responses, key=approval, reverse=True): stable, so equal approvals
\* keep their order in the batch.
RECURSIVE SortedFrom(_, _)
SortedFrom(rs, a) ==
    IF a < APPROVAL_MIN THEN <<>>
    ELSE SelectSeq(rs, LAMBDA r : r.approval = a) \o SortedFrom(rs, a - 1)

RECURSIVE SortedUpFrom(_, _)
SortedUpFrom(rs, a) ==
    IF a > APPROVAL_MAX THEN <<>>
    ELSE SelectSeq(rs, LAMBDA r : r.approval = a) \o SortedUpFrom(rs, a + 1)

sorted_ascending_reversed(rs) ==
    LET up == SortedUpFrom(rs, APPROVAL_MIN)
    IN  [i \in 1..Len(up) |-> up[Len(up) + 1 - i]]

sorted_by_approval(rs) == SortedFrom(rs, APPROVAL_MAX)

RECURSIVE SumEmotion(_, _)
SumEmotion(rs, e) ==
    IF rs = <<>> THEN 0
    ELSE (IF e \in DOMAIN Head(rs).emotions THEN Head(rs).emotions[e] ELSE 0)
         + SumEmotion(Tail(rs), e)

EmotionKeys(rs) == UNION {DOMAIN rs[i].emotions : i \in 1..Len(rs)}

IntentsIn(rs) == {rs[i].intent : i \in 1..Len(rs)}

\* len(responses)
ResponseCountDistinct(rs) == Cardinality({rs[i] : i \in 1..Len(rs)})

ResponseCount(rs) == Len(rs)

AggregateOfSeenBuckets(phase, rs) ==
    LET sorted == sorted_by_approval(rs)
    IN  [phase |-> phase,
         response_count |-> ResponseCount(rs),
         avg_approval |-> RoundHalfEven(100 * SumApprovals(rs), Len(rs)),
         approval_distribution |->
             [a \in {rs[i].approval : i \in 1..Len(rs)} |->
                 Len(SelectSeq(rs, LAMBDA r : r.approval = a))],
         emotion_means_json |->
             [e \in EmotionKeys(rs) |-> RoundHalfEven(10 * SumEmotion(rs, e), Len(rs))],
         intent_counts_json |-> [i \in IntentsIn(rs) |-> CountIntent(rs, i)],
         representative_quotes |->
             <<[type |-> "most_positive", approval |-> sorted[1].approval,
                text |-> sorted[1].verbatim],
               [type |-> "most_negative", approval |-> sorted[Len(sorted)].approval,
                text |-> sorted[Len(sorted)].verbatim]>>]

\* The defaults _compute_aggregates hands to update_or_create (responses is
\* not empty).  avg_approval is in hundredths, the emotion means in thousandths.
AggregateOf(phase, rs) ==
    LET sorted == sorted_by_approval(rs)
    IN  [phase |-> phase,
         response_count |-> ResponseCount(rs),
         avg_approval |-> RoundHalfEven(100 * SumApprovals(rs), Len(rs)),
         approval_distribution |->
             [a \in (APPROVAL_MIN..APPROVAL_MAX) \cup {rs[i].approval : i \in 1..Len(rs)} |->
                 Len(SelectSeq(rs, LAMBDA r : r.approval = a))],
         emotion_means_json |->
             [e \in EmotionKeys(rs) |-> RoundHalfEven(10 * SumEmotion(rs, e), Len(rs))],
         intent_counts_json |-> [i \in IntentsIn(rs) |-> CountIntent(rs, i)],
         representative_quotes |->
             <<[type |-> "most_positive", approval |-> sorted[1].approval,
                text |-> sorted[1].verbatim],
               [type |-> "most_negative", approval |-> sorted[Len(sorted)].approval,
                text |-> sorted[Len(sorted)].verbatim]>>]

create_beside(aggregates, row) == aggregates \cup {row}

\* RunAggregate.objects.update_or_create(run, phase, defaults): the row of the
\* phase is replaced, or inserted when there is none.
update_or_create(aggregates, row) ==
    {g \in aggregates : g.phase # row.phase} \cup {row}

\* ------------------------------------------------------------- environment
PayloadHi == Payload(8, AllEmotions(50), "share_positive", 90, "love it", 7)
PayloadLo == Payload(3, AllEmotions(20), "engage_critical", 70, "not for me", 10)
PayloadBad == Payload(11, AllEmotions(50), "ignore", 50, "meh", 3)

QuotaText == ExcText("429 Quota exceeded", {"quota"})
ResetText == ExcText("Connection reset by peer", {})

\* The outputs a backend may give to a call: any of them, or only a valid
\* answer and a transport failure.
FullBackend ==
    {BackendJson(PayloadHi), BackendJson(PayloadLo), BackendJson(PayloadBad),
     BackendRaise(QuotaText), BackendRaise(ResetText)}

BinaryBackend == {BackendJson(PayloadHi), BackendRaise(ResetText)}

Scripts(outputs, max_retries) == [1..(max_retries + 1) -> outputs]

PhaseTags == {PHASE_CHOICES[i] : i \in 1..Len(PHASE_CHOICES)}

\* CreateSimulationSerializer.phases: any list of phase tags (repeats and the
\* empty list included)
PhaseLists(maxlen) == UNION {[1..k -> PhaseTags] : k \in 0..maxlen}

AgentIds == 1..(IF LongAgents > MaxAgents THEN LongAgents ELSE MaxAgents)

\* ------------------------------------------------------------------- state
VARIABLES
    api_key,         \* settings.GEMINI_API_KEY is configured
    backend,         \* the outputs the text-generation backend may give
    segment_agents,  \* number of AgentProfile rows of the run's segment
    run,             \* the SimulationRun row
    db_responses,    \* the AgentResponse rows, in insertion order
    db_aggregates,   \* the RunAggregate rows
    db_memory,       \* AgentProfile.memory_text per agent, a sequence of lines
    db_traits,       \* AgentProfile.traits_json per agent
    pc,              \* position of the run_simulation call
    raised,          \* the exception run_simulation raised to its caller
    executions,      \* run_simulation calls made on the run
    errors,          \* SimulationOrchestrator.errors
    agents,          \* execute's `agents`: the loaded AgentProfile objects
    phases,          \* execute's `phases`
    phase_idx,       \* position of `for phase in phases`
    agent_idx,       \* position of `for agent in agents`
    day1_responses,  \* _execute_phase's day1_responses
    social_summary,  \* _execute_phase's social_summary
    responses_data,  \* _execute_phase's responses_data
    gen_log,         \* history: one entry per generate_agent_response call
    all_valid_calls, \* history: every backend call so far gave a valid response
    client_input,    \* SpecGen: the arguments of a generate_agent_response call
    client_result,   \* SpecGen: what that call gave
    other            \* the run_simulation call of another run over the same
                     \* segment, while it does not run: its own state

vars ==
    <<api_key, backend, segment_agents, run, db_responses, db_aggregates,
      db_memory, db_traits, pc, raised, executions, errors, agents, phases, phase_idx,
      agent_idx, day1_responses, social_summary, responses_data, gen_log,
      all_valid_calls, client_input, client_result, other>>

config == <<api_key, backend, segment_agents>>
client == <<client_input, client_result>>
db == <<db_responses, db_aggregates, db_memory, db_traits>>
history == <<gen_log, all_valid_calls>>
locals == <<agents, phases, phase_idx, agent_idx, day1_responses,
            social_summary, responses_data>>

\* SimulationRun defaults: status 'pending', error_summary blank, error_count 0
NewRun(phase_list) ==
    [status |-> "pending", phases |-> phase_list, agent_count |-> 0,
     started_at |-> FALSE, completed_at |-> FALSE,
     error_summary |-> <<>>, error_count |-> 0]

\* generate_agent_traits: the traits of the a-th agent of the segment, its
\* attitude scores rounded to hundredths
TraitsOf(a) ==
    [age |-> 25 + a, openness |-> 30 + a, tech_savviness |-> 40 + a,
     attitudes |-> <<NumScore(39 + a), TextScore("loyal")>>]

InitWith(outputs, n, phase_list) ==
    /\ backend = outputs
    /\ segment_agents = n
    /\ run = NewRun(phase_list)
    /\ db_responses = <<>>
    /\ db_aggregates = {}
    /\ db_memory = [a \in AgentIds |-> <<>>]
    /\ db_traits = [a \in AgentIds |-> TraitsOf(a)]
    /\ pc = "idle"
    /\ raised = None
    /\ executions = 0
    /\ errors = <<>>
    /\ agents = <<>>
    /\ phases = <<>>
    /\ phase_idx = 0
    /\ agent_idx = 0
    /\ day1_responses = <<>>
    /\ social_summary = None
    /\ responses_data = <<>>
    /\ gen_log = <<>>
    /\ all_valid_calls = TRUE

LongPhases == <<"D1", "D7">>

\* A run through three phases, the last two of them later phases
ChainPhases == <<"D1", "D7", "D30">>

SmallConfigs ==
    {c \in (0..MaxAgents) \X PhaseLists(MaxPhases) :
        c[1] * (IF c[2] = <<>> THEN Len(SIM_PHASES_DEFAULT) ELSE Len(c[2])) <= MaxWork}

\* A small segment with any short phase list and any backend, or the long
\* configuration: LongAgents agents through LongPhases, enough for more
\* than ERRORS_KEPT errors, or one agent through ChainPhases.
Init ==
    /\ client_input = None
    /\ client_result = None
    /\ other = None
    /\ api_key \in BOOLEAN
    /\ \/ \E c \in SmallConfigs : InitWith(FullBackend, c[1], c[2])
       \/ api_key /\ InitWith(BinaryBackend, LongAgents, LongPhases)
       \/ api_key /\ InitWith(FullBackend, 1, ChainPhases)

\* ------------------------------------------------------------ orchestrator
KeyErrorText == ExcText("GEMINI_API_KEY not configured", {})
NoAgentsText == ExcText("No agents found for this segment. Generate agents first.", {})
IntegrityText == ExcText("UNIQUE constraint failed: run, agent, phase", {})
DatabaseText == ExcText("database is unavailable", {})

\* execute's `except Exception as e`: status failed, error_summary = str(e),
\* completed_at, save, raise.  error_count is not assigned.
FailRun(r, e) ==
    [r EXCEPT !.status = "failed", !.error_summary = <<e.msg>>, !.completed_at = TRUE]

\* run_simulation(run): SimulationOrchestrator(run), whose GeminiClient()
\* raises without an API key, then execute() up to its first save.
Invoke ==
    /\ executions' = executions + 1
    /\ IF ~api_key
       THEN /\ raised' = Exception("GeminiError", KeyErrorText)
            /\ pc' = "raised"
            /\ UNCHANGED <<run, errors>>
       ELSE /\ run' = [run EXCEPT !.status = "running", !.started_at = TRUE]
            /\ errors' = <<>>
            /\ raised' = None
            /\ pc' = "setup"
    /\ UNCHANGED <<config, other, client, db, locals, history>>

RunSimulation ==
    /\ pc = "idle"
    /\ Invoke

\* execute, from `agents = list(...)` to `phases = ...`
LoadedAgents ==
    [i \in 1..segment_agents |->
        [id |-> i, traits_json |-> db_traits[i], memory_text |-> db_memory[i]]]

\* `if not agents`
NoAgentsNever == FALSE

NoAgents == segment_agents = 0

Setup ==
    /\ pc = "setup"
    /\ IF NoAgents
       THEN /\ run' = FailRun(run, Exception("ValueError", NoAgentsText))
            /\ raised' = Exception("ValueError", NoAgentsText)
            /\ pc' = "raised"
            /\ UNCHANGED <<agents, phases, phase_idx>>
       ELSE /\ run' = [run EXCEPT !.agent_count = segment_agents]
            /\ agents' = LoadedAgents
            /\ phases' = IF run.phases = <<>> THEN SIM_PHASES_DEFAULT ELSE run.phases
            /\ phase_idx' = 1
            /\ pc' = "phase_start"
            /\ UNCHANGED raised
    /\ UNCHANGED <<config, other, client, db, executions, errors, agent_idx, day1_responses,
                   social_summary, responses_data, history>>

\* AgentResponse.objects.filter(run, phase='D1').values(...), in Meta.ordering
\* (phase, agent display name)
RECURSIVE RowsByAgent(_, _)
RowsByAgent(rows, a) ==
    IF a > segment_agents THEN <<>>
    ELSE SelectSeq(rows, LAMBDA r : r.agent = a) \o RowsByAgent(rows, a + 1)

PrecedingPhaseRows ==
    RowsByAgent(SelectSeq(db_responses,
                          LAMBDA r : r.phase = (IF phase_idx > 1
                                                THEN phases[phase_idx - 1] ELSE "D1")), 1)

AllRunRows == RowsByAgent(db_responses, 1)

Day1Rows == RowsByAgent(SelectSeq(db_responses, LAMBDA r : r.phase = "D1"), 1)

SummaryInput(rows) ==
    [i \in 1..Len(rows) |->
        [approval |-> rows[i].data.approval, intent |-> rows[i].data.intent,
         verbatim |-> rows[i].data.verbatim]]

\* _execute_phase, up to `responses_data = []`
StartPhase ==
    /\ pc = "phase_start"
    /\ IF phases[phase_idx] \in LATER_PHASES
       THEN /\ day1_responses' = Day1Rows
            /\ social_summary' = build_social_summary(SummaryInput(Day1Rows))
       ELSE /\ day1_responses' = <<>>
            /\ social_summary' = None
    /\ responses_data' = <<>>
    /\ agent_idx' = 1
    /\ pc' = IF agents = <<>> THEN "phase_end" ELSE "agent"
    /\ UNCHANGED <<config, other, client, db, run, raised, executions, errors, agents, phases,
                   phase_idx, history>>

\* _process_agent's prompt: the agent's own Day 1 row, else the placeholder
AgentDay1(rows, a) ==
    LET mine == SelectSeq(rows, LAMBDA r : r.agent = a)
    IN  IF mine = <<>> THEN NeutralPlaceholder
        ELSE [approval |-> mine[1].data.approval, intent |-> mine[1].data.intent,
              verbatim |-> mine[1].data.verbatim]

PromptFor(agent, phase, rows, summary) ==
    IF phase = "D1"
    THEN build_day1_prompt(agent.traits_json, Stimulus)
    ELSE build_day7_prompt(agent.traits_json, Stimulus, AgentDay1(rows, agent.id),
                           summary)

\* unique_together = ['run', 'agent', 'phase'] (the rows are those of the run)
ViolatesUniquePerAgent(rows, a, phase) ==
    \E i \in 1..Len(rows) : rows[i].agent = a

ViolatesUniqueNever(rows, a, phase) == FALSE

ViolatesUnique(rows, a, phase) ==
    \E i \in 1..Len(rows) : rows[i].agent = a /\ rows[i].phase = phase

MemoryLineUntagged(phase, data) ==
    [phase |-> "D1", scenario |-> Stimulus.scenario, intent |-> data.intent,
     approval |-> data.approval]

MemoryLine(phase, data) ==
    [phase |-> phase, scenario |-> Stimulus.scenario, intent |-> data.intent,
     approval |-> data.approval]

ErrorMsg(a, phase, e) == [agent |-> a, phase |-> phase, text |-> e.msg]

\* The outcome of _process_agent for what generate_agent_response gave: the
\* exception it lets out, or None.
ProcessOutcome(res, a, phase) ==
    IF res.kind = "raise" THEN res.exc
    ELSE IF ViolatesUnique(db_responses, a, phase)
         THEN Exception("IntegrityError", IntegrityText)
         ELSE None

\* What the generate_agent_response call of one _process_agent can give, over
\* every sequence of backend outputs: the result, and whether every backend
\* call of it returned a contract-valid response (clean).
GenOutcome(res) ==
    [kind |-> res.kind, data |-> res.data, exc |-> res.exc,
     clean |-> res.kind = "return" /\ res.calls = 1]

GenOutcomes(prompt) ==
    {GenOutcome(generate_agent_response(prompt, script, MAX_RETRIES)) :
        script \in Scripts(backend, MAX_RETRIES)}

\* Where `for agent in agents` goes after the pass of agent number idx of n,
\* which let out exc (None when it appended a response): the next agent, or the
\* end of the loop after the last one.  A failure is recorded and skipped.
AfterAgentAborting(idx, n, exc) ==
    IF idx = n \/ exc # None THEN "phase_end" ELSE "agent"

AfterAgentEndsPhase(idx, n, exc) == "phase_end"

AfterAgent(idx, n, exc) ==
    IF idx = n THEN "phase_end" ELSE "agent"

ProcessAgentSharingMemory ==
    /\ pc = "agent"
    /\ LET a == agents[agent_idx].id
           phase == phases[phase_idx]
           prompt == PromptFor(agents[agent_idx], phase, day1_responses,
                               social_summary)
       IN  \E res \in GenOutcomes(prompt) :
             LET exc == ProcessOutcome(res, a, phase)
                 memory == Append(agents[agent_idx].memory_text,
                                  MemoryLine(phase, res.data))
             IN  /\ gen_log' = Append(gen_log,
                        [phase_idx |-> phase_idx, agent |-> a, prompt |-> prompt,
                         kind |-> res.kind, exc |-> exc])
                 /\ all_valid_calls' = (all_valid_calls /\ res.clean)
                 /\ IF exc = None
                    THEN /\ db_responses' = Append(db_responses,
                                [agent |-> a, phase |-> phase, data |-> res.data])
                         /\ agents' = [i \in 1..Len(agents) |->
                                          [agents[i] EXCEPT !.memory_text = memory]]
                         /\ db_memory' = [b \in AgentIds |->
                                             IF b <= segment_agents THEN memory
                                             ELSE db_memory[b]]
                         /\ db_traits' =
                               [db_traits EXCEPT ![a] = agents[agent_idx].traits_json]
                         /\ responses_data' = Append(responses_data, res.data)
                         /\ UNCHANGED errors
                    ELSE /\ errors' = Append(errors, ErrorMsg(a, phase, exc))
                         /\ UNCHANGED <<db_responses, agents, db_memory, db_traits,
                                        responses_data>>
    /\ agent_idx' = agent_idx + 1
    /\ pc' = AfterAgent(agent_idx, Len(agents), gen_log'[Len(gen_log')].exc)
    /\ UNCHANGED <<config, other, client, run, db_aggregates, raised, executions, phases,
                   phase_idx, day1_responses, social_summary>>

ProcessAgentSavingFirst ==
    /\ pc = "agent"
    /\ LET a == agents[agent_idx].id
           phase == phases[phase_idx]
           prompt == PromptFor(agents[agent_idx], phase, day1_responses,
                               social_summary)
       IN  \E res \in GenOutcomes(prompt) :
             LET exc == ProcessOutcome(res, a, phase)
                 memory == Append(agents[agent_idx].memory_text,
                                  MemoryLine(phase, res.data))
             IN  /\ gen_log' = Append(gen_log,
                        [phase_idx |-> phase_idx, agent |-> a, prompt |-> prompt,
                         kind |-> res.kind, exc |-> exc])
                 /\ all_valid_calls' = (all_valid_calls /\ res.clean)
                 /\ IF res.kind = "return"
                    THEN /\ agents' = [agents EXCEPT ![agent_idx].memory_text = memory]
                         /\ db_memory' = [db_memory EXCEPT ![a] = memory]
                         /\ db_traits' =
                               [db_traits EXCEPT ![a] = agents[agent_idx].traits_json]
                    ELSE UNCHANGED <<agents, db_memory, db_traits>>
                 /\ IF exc = None
                    THEN /\ db_responses' = Append(db_responses,
                                [agent |-> a, phase |-> phase, data |-> res.data])
                         /\ responses_data' = Append(responses_data, res.data)
                         /\ UNCHANGED errors
                    ELSE /\ errors' = Append(errors, ErrorMsg(a, phase, exc))
                         /\ UNCHANGED <<db_responses, responses_data>>
    /\ agent_idx' = agent_idx + 1
    /\ pc' = AfterAgent(agent_idx, Len(agents), gen_log'[Len(gen_log')].exc)
    /\ UNCHANGED <<config, other, client, run, db_aggregates, raised, executions, phases,
                   phase_idx, day1_responses, social_summary>>

\* One pass of `for agent in agents` in _execute_phase: _process_agent, then
\* the append to responses_data or to self.errors.
ProcessAgent ==
    /\ pc = "agent"
    /\ LET a == agents[agent_idx].id
           phase == phases[phase_idx]
           prompt == PromptFor(agents[agent_idx], phase, day1_responses,
                               social_summary)
       IN  \E res \in GenOutcomes(prompt) :
             LET exc == ProcessOutcome(res, a, phase)
                 memory == Append(agents[agent_idx].memory_text,
                                  MemoryLine(phase, res.data))
             IN  /\ gen_log' = Append(gen_log,
                        [phase_idx |-> phase_idx, agent |-> a, prompt |-> prompt,
                         kind |-> res.kind, exc |-> exc])
                 /\ all_valid_calls' = (all_valid_calls /\ res.clean)
                 /\ IF exc = None
                    THEN /\ db_responses' = Append(db_responses,
                                [agent |-> a, phase |-> phase, data |-> res.data])
                         /\ agents' = [agents EXCEPT ![agent_idx].memory_text = memory]
                         /\ db_memory' = [db_memory EXCEPT ![a] = memory]
                         /\ db_traits' =
                               [db_traits EXCEPT ![a] = agents[agent_idx].traits_json]
                         /\ responses_data' = Append(responses_data, res.data)
                         /\ UNCHANGED errors
                    ELSE /\ errors' = Append(errors, ErrorMsg(a, phase, exc))
                         /\ UNCHANGED <<db_responses, agents, db_memory, db_traits,
                                        responses_data>>
    /\ agent_idx' = agent_idx + 1
    /\ pc' = AfterAgent(agent_idx, Len(agents), gen_log'[Len(gen_log')].exc)
    /\ UNCHANGED <<config, other, client, run, db_aggregates, raised, executions, phases,
                   phase_idx, day1_responses, social_summary>>

EndPhaseAggregatingEmpty ==
    /\ pc = "phase_end"
    /\ db_aggregates' =
          IF responses_data # <<>>
          THEN update_or_create(db_aggregates,
                                AggregateOf(phases[phase_idx], responses_data))
          ELSE update_or_create(db_aggregates,
                                [phase |-> phases[phase_idx], response_count |-> 0])
    /\ phase_idx' = phase_idx + 1
    /\ pc' = IF phase_idx = Len(phases) THEN "finish" ELSE "phase_start"
    /\ UNCHANGED <<config, other, client, run, db_responses, db_memory, db_traits, raised, executions,
                   errors, agents, phases, agent_idx, day1_responses,
                   social_summary, responses_data, history>>

\* _execute_phase's `if responses_data: self._compute_aggregates(...)`, and the
\* step of `for phase in phases`
EndPhase ==
    /\ pc = "phase_end"
    /\ db_aggregates' =
          IF responses_data # <<>>
          THEN update_or_create(db_aggregates,
                                AggregateOf(phases[phase_idx], responses_data))
          ELSE db_aggregates
    /\ phase_idx' = phase_idx + 1
    /\ pc' = IF phase_idx = Len(phases) THEN "finish" ELSE "phase_start"
    /\ UNCHANGED <<config, other, client, run, db_responses, db_memory, db_traits, raised, executions,
                   errors, agents, phases, agent_idx, day1_responses,
                   social_summary, responses_data, history>>

\* self.errors[-10:]
LastErrorsFromFront(es) ==
    IF Len(es) <= ERRORS_KEPT THEN es ELSE SubSeq(es, 1, ERRORS_KEPT)

LastErrors(es) ==
    IF Len(es) <= ERRORS_KEPT THEN es
    ELSE SubSeq(es, Len(es) - ERRORS_KEPT + 1, Len(es))

\* execute's "Final status"
FinalRunAlwaysCompleted(r, es) ==
    [r EXCEPT !.status = "completed", !.completed_at = TRUE]

FinalRun(r, es) ==
    IF es # <<>>
    THEN [r EXCEPT !.status = "partial", !.error_summary = LastErrors(es),
                   !.error_count = Len(es), !.completed_at = TRUE]
    ELSE [r EXCEPT !.status = "completed", !.completed_at = TRUE]

Finish ==
    /\ pc = "finish"
    /\ run' = FinalRun(run, errors)
    /\ pc' = "done"
    /\ UNCHANGED <<config, other, client, db, raised, executions, errors, locals, history>>

Next ==
    \/ RunSimulation
    \/ Setup
    \/ StartPhase
    \/ ProcessAgent
    \/ EndPhase
    \/ Finish

Spec == Init /\ [][Next]_vars

\* ------------------------------------------------- the hostile environment
\* A caller invokes run_simulation again on a run that has ended, and the
\* database may fail a call made outside the per-agent loop.
ReExecute ==
    /\ pc \in {"done", "raised"}
    /\ executions < MaxExecutes
    /\ Invoke

\* _execute_phase raises outside `for agent in agents`: the Day 1 query of a
\* later phase or the update_or_create of a non-empty batch fails.  It reaches
\* execute's `except Exception`.
PhaseFault ==
    /\ \/ pc = "phase_start" /\ phases[phase_idx] \in LATER_PHASES
       \/ pc = "phase_end" /\ responses_data # <<>>
    /\ run' = FailRun(run, Exception("OperationalError", DatabaseText))
    /\ raised' = Exception("OperationalError", DatabaseText)
    /\ pc' = "raised"
    /\ UNCHANGED <<config, other, client, db, executions, errors, locals, history>>

InitEnv ==
    /\ client_input = None
    /\ client_result = None
    /\ other = None
    /\ api_key \in BOOLEAN
    /\ \E c \in SmallConfigs : InitWith(BinaryBackend, c[1], c[2])

NextRerun ==
    \/ Next
    \/ ReExecute

SpecRerun == InitEnv /\ [][NextRerun]_vars

NextFault ==
    \/ Next
    \/ PhaseFault

SpecFault == InitEnv /\ [][NextFault]_vars

\* ------------------------------------------------- the client on its own
\* generate_agent_response applied to a base prompt, for every max_retries up
\* to MaxRetriesArg and every sequence of backend outputs.
PayloadNoJoy ==
    Payload(5, [e \in VALID_EMOTIONS \ {"joy"} |-> 50], "ignore", 50, "meh", 3)

ClientBackend ==
    {BackendJson(PayloadHi), BackendJson(PayloadBad), BackendJson(PayloadNoJoy),
     BackendFenced(PayloadLo), BackendGarbage, BackendFencedGarbage,
     BackendRaise(QuotaText), BackendRaise(ResetText)}

ClientPrompt == build_day1_prompt(TraitsOf(1), Stimulus)

InitGen ==
    /\ \E m \in 0..MaxRetriesArg :
         \E script \in Scripts(ClientBackend, m) :
            client_input = [none |-> FALSE, prompt |-> ClientPrompt,
                            script |-> script, max_retries |-> m]
    /\ client_result = None
    /\ other = None
    /\ api_key = TRUE
    /\ InitWith(ClientBackend, 0, <<>>)

GenerateCall ==
    /\ client_result = None
    /\ client_result' = generate_agent_response(client_input.prompt,
                            client_input.script, client_input.max_retries)
    /\ UNCHANGED <<config, other, client_input, db, run, pc, raised, executions, errors,
                   locals, history>>

NextGen == GenerateCall

SpecGen == InitGen /\ [][NextGen]_vars

\* The call, once made, runs to its return or raise: its loop is bounded and
\* its sleeps end
SpecGenFair == InitGen /\ [][NextGen]_vars /\ WF_vars(GenerateCall)

\* ------------------------------------------- the contract at the database
\* A run over phase D1 against a backend that answers with payloads at and
\* beyond every limit of the response contract.
PayloadLong == Payload(6, AllEmotions(50), "ignore", 50, "x...", VERBATIM_MAX + 1)
PayloadFull == Payload(6, AllEmotions(0), "seek_more_info", 100, "y...", VERBATIM_MAX)
PayloadCase == Payload(6, AllEmotions(50), "Share_Positive", 50, "ok", 2)
PayloadSure == Payload(6, AllEmotions(50), "ignore", SCORE_MAX + 1, "ok", 2)
PayloadHot == Payload(6, AllEmotions(SCORE_MAX + 1), "ignore", 50, "ok", 2)
PayloadHope ==
    Payload(APPROVAL_MIN,
            [e \in VALID_EMOTIONS \cup {"hope"} |-> IF e = "hope" THEN 250 ELSE 100],
            "purchase_intent", 0, "", 0)

ContractBackend ==
    {BackendJson(PayloadHi), BackendFenced(PayloadLo), BackendJson(PayloadBad),
     BackendJson(PayloadNoJoy), BackendJson(PayloadLong), BackendJson(PayloadFull),
     BackendJson(PayloadCase), BackendJson(PayloadSure), BackendJson(PayloadHot),
     BackendJson(PayloadHope)}

InitContract ==
    /\ client_input = None
    /\ client_result = None
    /\ other = None
    /\ api_key = TRUE
    /\ \E n \in 1..MaxAgents : InitWith(ContractBackend, n, <<"D1">>)

SpecContract == InitContract /\ [][Next]_vars

\* ---------------------------------------------- the validator on its own
\* validate_agent_response applied to a parsed mapping, and then to the
\* normalized response it returned.
ValApprovals == {APPROVAL_MIN - 1, APPROVAL_MIN, APPROVAL_MAX, APPROVAL_MAX + 1}

ValEmotions ==
    {AllEmotions(SCORE_MIN), AllEmotions(SCORE_MAX), AllEmotions(SCORE_MAX + 1)}
    \cup {[e \in VALID_EMOTIONS \ {k} |-> 50] : k \in VALID_EMOTIONS}
    \cup {PayloadHope.emotions}

ValIntents ==
    VALID_INTENTS \cup {"Share_Positive", "IGNORE", "ignore ", "share", "buy"}

ValConfidences == {SCORE_MIN, SCORE_MAX, SCORE_MAX + 1}

ValVerbatims ==
    {[text |-> "", len |-> 0], [text |-> "y...", len |-> VERBATIM_MAX],
     [text |-> "x...", len |-> VERBATIM_MAX + 1]}

ValPayloads ==
    {Payload(a, em, i, c, v.text, v.len) :
        a \in ValApprovals, em \in ValEmotions, i \in ValIntents,
        c \in ValConfidences, v \in ValVerbatims}

InitVal ==
    /\ \E d \in ValPayloads :
          client_input = [none |-> FALSE, data |-> d, first |-> None]
    /\ client_result = None
    /\ other = None
    /\ api_key = TRUE
    /\ InitWith({}, 0, <<>>)

\* is_valid, validated_data, error_msg = validate_agent_response(data)
Validate ==
    /\ client_result = None
    /\ client_result' = validate_agent_response(client_input.data)
    /\ UNCHANGED <<config, other, client_input, db, run, pc, raised, executions, errors,
                   locals, history>>

\* validate_agent_response(validated_data)
Revalidate ==
    /\ client_result # None
    /\ client_input.first = None
    /\ client_result.is_valid
    /\ client_input' = [client_input EXCEPT !.first = client_result]
    /\ client_result' = validate_agent_response(client_result.data)
    /\ UNCHANGED <<config, other, db, run, pc, raised, executions, errors, locals, history>>

NextVal ==
    \/ Validate
    \/ Revalidate

SpecVal == InitVal /\ [][NextVal]_vars

\* --------------------------------------------- the aggregator on its own
\* _compute_aggregates applied to a batch of validated responses, and again
\* to the same batch or to the batch of a later finalisation of a phase.
\* gen_log keeps the phase and the batch of every call.
AggResponses ==
    {ModelDump(Payload(APPROVAL_MAX, AllEmotions(SCORE_MAX), "share_positive", 90, "a", 1)),
     ModelDump(Payload(APPROVAL_MAX, AllEmotions(SCORE_MIN), "purchase_intent", 80, "b", 1)),
     ModelDump(Payload(APPROVAL_MIN, AllEmotions(25), "oppose_actively", 70, "c", 1)),
     ModelDump(Payload(APPROVAL_MIN, AllEmotions(SCORE_MIN), "share_negative", 60, "d", 1)),
     ModelDump(Payload(PLACEHOLDER_APPROVAL, AllEmotions(50), "ignore", 50, "e", 1))}

Batches(maxlen) == UNION {[1..k -> AggResponses] : k \in 1..maxlen}

AggPhases == {"D1", "D7"}

InitAgg ==
    /\ client_input = None
    /\ client_result = None
    /\ other = None
    /\ api_key = TRUE
    /\ backend = {}
    /\ segment_agents = 0
    /\ run = NewRun(<<>>)
    /\ db_responses = <<>>
    /\ db_aggregates = {}
    /\ db_memory = [a \in AgentIds |-> <<>>]
    /\ db_traits = [a \in AgentIds |-> TraitsOf(a)]
    /\ pc = "phase_end"
    /\ raised = None
    /\ executions = 0
    /\ errors = <<>>
    /\ agents = <<>>
    /\ \E p \in AggPhases : phases = <<p>>
    /\ phase_idx = 1
    /\ agent_idx = 0
    /\ day1_responses = <<>>
    /\ social_summary = None
    /\ responses_data \in Batches(MaxBatch)
    /\ gen_log = <<>>
    /\ all_valid_calls = TRUE

\* self._compute_aggregates(phase, responses_data)
ComputeAggregates ==
    /\ pc = "phase_end"
    /\ executions < MaxComputes
    /\ db_aggregates' =
          update_or_create(db_aggregates, AggregateOf(phases[1], responses_data))
    /\ executions' = executions + 1
    /\ pc' = "aggregated"
    /\ gen_log' = Append(gen_log, [phase |-> phases[1], batch |-> responses_data])
    /\ UNCHANGED <<config, other, client, run, db_responses, db_memory, db_traits, raised, errors,
                   locals, all_valid_calls>>

\* The next call: the same phase and batch again, or a phase with the batch
\* of one response
NextBatch ==
    /\ pc = "aggregated"
    /\ executions < MaxComputes
    /\ \E p \in AggPhases, b \in {responses_data} \cup Batches(1) :
          /\ phases' = <<p>>
          /\ responses_data' = b
    /\ pc' = "phase_end"
    /\ UNCHANGED <<config, other, client, run, db, raised, executions, errors, agents,
                   phase_idx, agent_idx, day1_responses, social_summary, history>>

NextAgg ==
    \/ ComputeAggregates
    \/ NextBatch

SpecAgg == InitAgg /\ [][NextAgg]_vars

\* ------------------------------------- the attitude formatter on its own
\* _format_attitudes applied to an attitudes mapping of up to MaxTopics
\* topics, the scores at and around the two thresholds.
AttitudeScores ==
    {NumScore(h) : h \in {0, 39, 40, 41, 45, 59, 60, 61, 100}}
    \cup {TextScore("mixed")}

AttitudeMaps(maxlen) == UNION {[1..k -> AttitudeScores] : k \in 0..maxlen}

InitFmt ==
    /\ \E att \in AttitudeMaps(MaxTopics) :
          client_input = [none |-> FALSE, attitudes |-> att]
    /\ client_result = None
    /\ other = None
    /\ api_key = TRUE
    /\ InitWith({}, 0, <<>>)

\* {_format_attitudes(agent_traits.get('attitudes', {}))}
FormatAttitudes ==
    /\ client_result = None
    /\ client_result' = [none |-> FALSE,
                         lines |-> _format_attitudes(client_input.attitudes)]
    /\ UNCHANGED <<config, other, client_input, db, run, pc, raised, executions, errors,
                   locals, history>>

NextFmt == FormatAttitudes

SpecFmt == InitFmt /\ [][NextFmt]_vars

\* ------------------------------------------------ two runs over one segment
\* Two run_simulation calls in flight at once (two requests to
\* SimulationViewSet.create), one run each over the same segment.  The state
\* variables of the orchestrator are those of the call that runs; `other`
\* keeps the call that waits.  The AgentResponse and RunAggregate rows are the
\* rows of the run of the call (every query and insert names its run); the
\* AgentProfile rows are the segment's and are shared.
TwoRunsBackend ==
    {BackendJson(PayloadHi), BackendJson(PayloadLo), BackendRaise(ResetText)}

Running ==
    [run |-> run, db_responses |-> db_responses, db_aggregates |-> db_aggregates,
     pc |-> pc, raised |-> raised, executions |-> executions, errors |-> errors,
     agents |-> agents, phases |-> phases, phase_idx |-> phase_idx,
     agent_idx |-> agent_idx, day1_responses |-> day1_responses,
     social_summary |-> social_summary, responses_data |-> responses_data,
     gen_log |-> gen_log, all_valid_calls |-> all_valid_calls]

InitTwoRuns ==
    /\ client_input = None
    /\ client_result = None
    /\ api_key = TRUE
    /\ \E n \in 1..MaxAgents : InitWith(TwoRunsBackend, n, <<"D1">>)
    /\ other = [run |-> NewRun(<<"D1">>), db_responses |-> <<>>, db_aggregates |-> {},
                pc |-> "idle", raised |-> None, executions |-> 0, errors |-> <<>>,
                agents |-> <<>>, phases |-> <<>>, phase_idx |-> 0, agent_idx |-> 0,
                day1_responses |-> <<>>, social_summary |-> None,
                responses_data |-> <<>>, gen_log |-> <<>>, all_valid_calls |-> TRUE]

\* The scheduler lets the other call run
Switch ==
    /\ other # None
    /\ other' = Running
    /\ run' = other.run
    /\ db_responses' = other.db_responses
    /\ db_aggregates' = other.db_aggregates
    /\ pc' = other.pc
    /\ raised' = other.raised
    /\ executions' = other.executions
    /\ errors' = other.errors
    /\ agents' = other.agents
    /\ phases' = other.phases
    /\ phase_idx' = other.phase_idx
    /\ agent_idx' = other.agent_idx
    /\ day1_responses' = other.day1_responses
    /\ social_summary' = other.social_summary
    /\ responses_data' = other.responses_data
    /\ gen_log' = other.gen_log
    /\ all_valid_calls' = other.all_valid_calls
    /\ UNCHANGED <<config, client, db_memory, db_traits>>

NextTwoRuns ==
    \/ Next
    \/ Switch

SpecTwoRuns == InitTwoRuns /\ [][NextTwoRuns]_vars

\* ================================================================== claims
Terminal == {"completed", "partial", "failed"}

Min(a, b) == IF a < b THEN a ELSE b

\* The gen_log entries of the phase at position i of the phase list
PhaseLog(i) == SelectSeq(gen_log, LAMBDA g : g.phase_idx = i)

FailuresIn(log) == Len(SelectSeq(log, LAMBDA g : g.exc # None))

\* The messages self.errors must hold for the per-agent failures of a log
RECURSIVE ExpectedErrors(_)
ExpectedErrors(log) ==
    IF log = <<>> THEN <<>>
    ELSE LET g == Head(log)
         IN  (IF g.exc = None THEN <<>>
              ELSE <<ErrorMsg(g.agent, phases[g.phase_idx], g.exc)>>)
             \o ExpectedErrors(Tail(log))

NoRepeatedPhase(ps) == \A i, j \in 1..Len(ps) : ps[i] = ps[j] => i = j

\* C1 (SpecRerun): over any sequence of run_simulation/execute invocations the
\* status of a run only steps pending -> running -> one of completed, partial,
\* failed, and a terminal status never changes again.
C1_StatusOnlyMovesForward ==
    [][\/ run'.status = run.status
       \/ run.status = "pending" /\ run'.status = "running"
       \/ run.status = "running" /\ run'.status \in Terminal]_vars

\* C2 (Spec): whenever run_simulation has raised to its caller, the persisted
\* status of the run is failed, never pending or running.
C2_RaisedImpliesFailed ==
    pc = "raised" => run.status = "failed"

\* C3 (SpecGen): when the backend gives text that is not parseable as JSON on
\* each of the first max_retries calls and a contract-valid JSON object on the
\* next, generate_agent_response returns that validated response and the last
\* prompt sent carries one corrective instruction per earlier failure.
Unparseable(out) == out.form \in {"garbage", "fenced_garbage"}

ValidJson(out) == out.form = "json" /\ validate_agent_response(out.data).is_valid

C3_Case ==
    /\ client_result # None
    /\ \A i \in 1..client_input.max_retries : Unparseable(client_input.script[i])
    /\ ValidJson(client_input.script[client_input.max_retries + 1])

C3_NonJsonRetriedThenReturns ==
    C3_Case =>
        /\ client_result.kind = "return"
        /\ client_result.data =
              validate_agent_response(
                  client_input.script[client_input.max_retries + 1].data).data
        /\ client_result.calls = client_input.max_retries + 1
        /\ Len(client_result.prompts[client_result.calls].corrections)
              = client_input.max_retries

\* C4 (Spec): a per-agent failure aborts neither the phase nor the run: the
\* agents are attempted in order, each at most once per position of the phase
\* list, every agent of the segment exactly once in every position by the time
\* the run ends, and run_simulation raises nothing once an agent was processed.
C4_EveryAgentAttemptedOnce ==
    /\ \A i \in 1..Len(phases) :
         /\ Len(PhaseLog(i)) <= segment_agents
         /\ \A k \in 1..Len(PhaseLog(i)) : PhaseLog(i)[k].agent = k
         /\ (i < phase_idx \/ (i = phase_idx /\ pc = "phase_end"))
               => Len(PhaseLog(i)) = segment_agents
         /\ i > phase_idx => PhaseLog(i) = <<>>
    /\ gen_log # <<>> => raised = None /\ pc # "raised"

C4_Witness ==
    /\ pc = "done"
    /\ Len(phases) = 2
    /\ segment_agents = 2
    /\ gen_log[1].exc # None
    /\ gen_log[1].exc.class = "GeminiRateLimitError"
    /\ Len(gen_log) = 4

\* C5 (Spec): when execute has run all phases, the final status is completed
\* exactly when self.errors is empty and partial exactly when it is not.
C5_FinalStatusByErrors ==
    pc = "done" =>
        /\ run.status \in {"completed", "partial"}
        /\ run.status = "completed" <=> errors = <<>>
        /\ run.status = "partial" <=> errors # <<>>

C5_Witness ==
    /\ pc = "done"
    /\ run.status = "partial"
    /\ Len(errors) = 1
    /\ Len(gen_log) > 1

\* C6 as claimed (Spec): a run over at least one agent in which every backend
\* call returned a contract-valid response ends completed with no error and
\* error_count 0, for every phase list over the four tags.
C6_AllValidCompletes ==
    (pc = "done" /\ all_valid_calls) =>
        /\ run.status = "completed"
        /\ errors = <<>>
        /\ run.error_count = 0

\* C6 as amended (Spec): the same for every phase list that names no phase
\* twice; and a run with a configured key over at least one agent never raises.
C6_AllValidCompletesDistinctPhases ==
    /\ (pc = "done" /\ all_valid_calls /\ NoRepeatedPhase(phases)) =>
          /\ run.status = "completed"
          /\ errors = <<>>
          /\ run.error_count = 0
    /\ (api_key /\ segment_agents >= 1) => pc # "raised"

C6_Witness ==
    /\ pc = "done"
    /\ all_valid_calls
    /\ phases = <<"D7", "D1">>
    /\ segment_agents = 2
    /\ run.status = "completed"

\* C7 (Spec): with no agent in the segment, execute sets status failed, records
\* the message and raises before any phase: no generation call, no
\* AgentResponse, no RunAggregate, no memory change.
C7_NoAgentsFailsBeforeAnyPhase ==
    (api_key /\ segment_agents = 0) =>
        /\ gen_log = <<>>
        /\ db_responses = <<>>
        /\ db_aggregates = {}
        /\ \A a \in AgentIds : db_memory[a] = <<>>
        /\ pc \in {"idle", "setup", "raised"}
        /\ pc = "raised" =>
              /\ run.status = "failed"
              /\ run.error_summary = <<NoAgentsText>>
              /\ raised = Exception("ValueError", NoAgentsText)

C7_Witness ==
    /\ segment_agents = 0
    /\ pc = "raised"
    /\ run.status = "failed"
    /\ run.phases = <<"D1", "D7">>

\* C8 (Spec): when a run ends partial after n >= 1 per-agent errors, error_count
\* is n and error_summary is the last min(n, 10) messages in recording order.
C8_PartialCountsAllKeepsLastTen ==
    (pc = "done" /\ run.status = "partial") =>
        LET expected == ExpectedErrors(gen_log)
            n == Len(expected)
            kept == Min(n, ERRORS_KEPT)
        IN  /\ n >= 1
            /\ run.error_count = n
            /\ Len(run.error_summary) = kept
            /\ \A i \in 1..kept : run.error_summary[i] = expected[n - kept + i]

C8_Witness ==
    /\ pc = "done"
    /\ run.status = "partial"
    /\ run.error_count = ERRORS_KEPT + 1
    /\ Len(run.error_summary) = ERRORS_KEPT

\* C9 (SpecFault): when a run ends failed after k per-agent errors were
\* accumulated, the persisted error_count is k.
C9_FailedCountsErrors ==
    (pc = "raised" /\ run.status = "failed") => run.error_count = Len(errors)

C11_OneResponsePerTriple ==
    /\ \A i, j \in 1..Len(db_responses) :
          (db_responses[i].agent = db_responses[j].agent
             /\ db_responses[i].phase = db_responses[j].phase) => i = j
    /\ \A k \in 1..Len(gen_log) :
          (gen_log[k].exc # None /\ gen_log[k].exc.class = "IntegrityError")
             => gen_log[k].kind = "return"

C11_Witness ==
    /\ pc = "done"
    /\ phases = <<"D1", "D1">>
    /\ segment_agents = 2
    /\ Len(db_responses) = 2
    /\ Len(gen_log) = 4
    /\ gen_log[1].kind = "raise"
    /\ gen_log[3].exc = None
    /\ gen_log[4].exc # None
    /\ gen_log[4].exc.class = "IntegrityError"

\* The backend output parsed to a mapping (directly or from its fenced block)
\* that fails the response contract
InvalidJson(out) ==
    /\ out.form \in {"json", "fenced"}
    /\ ~validate_agent_response(out.data).is_valid

\* C12 (SpecGen): when every backend output parses as JSON and fails the
\* contract, generate_agent_response raises GeminiValidationError carrying the
\* validation error of the last attempt, after exactly max_retries + 1 calls.
C12_Case ==
    /\ client_result # None
    /\ \A i \in 1..(client_input.max_retries + 1) : InvalidJson(client_input.script[i])

C12_AlwaysInvalidRaisesLastError ==
    C12_Case =>
        /\ client_result.kind = "raise"
        /\ client_result.exc.class = "GeminiValidationError"
        /\ client_result.exc.msg.text = "Schema validation failed"
        /\ client_result.exc.msg.error =
              validate_agent_response(
                  client_input.script[client_input.max_retries + 1].data).error
        /\ client_result.calls = client_input.max_retries + 1

C12_Witness ==
    /\ C12_Case
    /\ client_input.max_retries = 2
    /\ client_input.script =
          <<BackendJson(PayloadBad), BackendJson(PayloadBad), BackendJson(PayloadNoJoy)>>
    /\ client_result.kind = "raise"
    /\ client_result.exc.msg.error.fields = {"emotions"}
    /\ client_result.calls = 3

\* The backend call raises an error whose text names a quota or a rate
RateLimitFlavoured(out) ==
    /\ out.form = "raise"
    /\ ("quota" \in out.msg.words \/ "rate" \in out.msg.words)

RECURSIVE SumSeq(_)
SumSeq(s) == IF s = <<>> THEN 0 ELSE Head(s) + SumSeq(Tail(s))

\* C13 (SpecGen): when every backend call raises a rate-limit error,
\* generate_agent_response raises GeminiRateLimitError after exactly
\* max_retries + 1 calls; it waited retry_delay * i before retry i, in total
\* retry_delay * (1 + ... + max_retries), and not after the last attempt.
C13_Case ==
    /\ client_result # None
    /\ \A i \in 1..(client_input.max_retries + 1) :
          RateLimitFlavoured(client_input.script[i])

RECURSIVE ValidationErrorsBefore(_, _)
ValidationErrorsBefore(script, k) ==
    IF k <= 1 THEN <<>>
    ELSE ValidationErrorsBefore(script, k - 1)
         \o (IF InvalidJson(script[k - 1])
             THEN <<validate_agent_response(script[k - 1].data).error>>
             ELSE <<>>)

IsPrefix(s, t) == Len(s) <= Len(t) /\ SubSeq(t, 1, Len(s)) = s

\* C14 (SpecGen): within one call the prompt only grows: the prompt sent on an
\* attempt is the original prompt followed by one corrective instruction per
\* earlier contract-validation failure, in failure order, each naming the
\* validation error of its attempt; it is never reset or shortened.
C14_PromptGrowsByCorrections ==
    client_result # None =>
        /\ \A k \in 1..client_result.calls :
              /\ client_result.prompts[k].base = client_input.prompt.base
              /\ client_result.prompts[k].corrections =
                    client_input.prompt.corrections
                       \o ValidationErrorsBefore(client_input.script, k)
        /\ \A k \in 1..(client_result.calls - 1) :
              IsPrefix(client_result.prompts[k].corrections,
                       client_result.prompts[k + 1].corrections)

C14_Witness ==
    /\ client_result # None
    /\ client_input.max_retries = 2
    /\ client_input.script =
          <<BackendJson(PayloadBad), BackendJson(PayloadNoJoy), BackendJson(PayloadHi)>>
    /\ client_result.kind = "return"
    /\ client_result.prompts[1].corrections = <<>>
    /\ client_result.prompts[3].corrections =
          <<[none |-> FALSE, fields |-> {"approval"}],
            [none |-> FALSE, fields |-> {"emotions"}]>>

\* The backend output parsed to a mapping (directly or from its fenced block)
\* that satisfies the response contract
ValidParsed(out) ==
    /\ out.form \in {"json", "fenced"}
    /\ validate_agent_response(out.data).is_valid

\* C15 (SpecGen): as soon as an attempt yields a contract-valid response the
\* call returns that normalized response: the valid attempt is the last
\* backend call, nothing is waited for after it, and a call that returns
\* returns the response of its last attempt, the only valid one it saw.
C15_ReturnsAtFirstValid ==
    client_result # None =>
        /\ \A k \in 1..client_result.calls :
              ValidParsed(client_input.script[k]) =>
                 /\ client_result.kind = "return"
                 /\ client_result.calls = k
                 /\ client_result.data =
                       validate_agent_response(client_input.script[k].data).data
                 /\ Len(client_result.events) = 2 * k - 1
                 /\ client_result.events[Len(client_result.events)] = "call"
                 /\ Len(client_result.waits) = k - 1
        /\ client_result.kind = "return" =>
              ValidParsed(client_input.script[client_result.calls])

C15_Witness ==
    /\ client_result # None
    /\ client_input.max_retries = 2
    /\ client_input.script =
          <<BackendJson(PayloadBad), BackendFenced(PayloadLo), BackendJson(PayloadHi)>>
    /\ client_result.kind = "return"
    /\ client_result.data = ModelDump(PayloadLo)
    /\ client_result.calls = 2
    /\ client_result.events = <<"call", "wait", "call">>

C17_Case ==
    /\ client_result # None
    /\ client_result.kind = "raise"
    /\ client_result.calls = client_input.max_retries + 1

C17_RaisesClassOfLastAttempt ==
    C17_Case =>
        LET last == client_input.script[client_input.max_retries + 1]
        IN  /\ RateLimitFlavoured(last) =>
                  client_result.exc = Exception("GeminiRateLimitError", last.msg)
            /\ (last.form = "raise" /\ ~RateLimitFlavoured(last)) =>
                  client_result.exc = Exception("GeminiAPIError", last.msg)
            /\ InvalidJson(last) =>
                  /\ client_result.exc.class = "GeminiValidationError"
                  /\ client_result.exc.msg.error =
                        validate_agent_response(last.data).error

C17_Witness ==
    /\ C17_Case
    /\ client_input.max_retries = 2
    /\ client_input.script =
          <<BackendRaise(QuotaText), BackendJson(PayloadBad), BackendRaise(ResetText)>>
    /\ client_result.exc.class = "GeminiAPIError"

\* The later-phase prompt of agent a built from the phase-D1 rows among rows
\* and from nothing else
Day1Of(rows) == RowsByAgent(SelectSeq(rows, LAMBDA r : r.phase = "D1"), 1)

ExpectedLaterPrompt(a, rows) ==
    LET own == SelectSeq(Day1Of(rows), LAMBDA r : r.agent = a)
    IN  build_day7_prompt(db_traits[a], Stimulus,
            IF own = <<>> THEN NeutralPlaceholder
            ELSE [approval |-> own[1].data.approval, intent |-> own[1].data.intent,
                  verbatim |-> own[1].data.verbatim],
            build_social_summary(SummaryInput(Day1Of(rows))))

\* C18 (Spec): in every later phase (D7, D30, D90) the prompt sent for an agent
\* embeds that agent's persisted phase-D1 response of this run and the social
\* summary of this run's phase-D1 responses, never the responses of the phase
\* just before it.
C18_LaterPromptFromDay1 ==
    [][Len(gen_log') = Len(gen_log) + 1 =>
          LET g == gen_log'[Len(gen_log')]
          IN  phases[g.phase_idx] \in LATER_PHASES =>
                 g.prompt = ExpectedLaterPrompt(g.agent, db_responses)]_vars

C18_Witness ==
    /\ pc = "done"
    /\ phases = ChainPhases
    /\ Len(db_responses) = 3
    /\ db_responses[1].data.approval = 8
    /\ db_responses[2].phase = "D7"
    /\ db_responses[2].data.approval = 3
    /\ gen_log[3].prompt.base.day1_response.approval = 8
    /\ gen_log[3].prompt.base.social_summary.avg_tenths = 80

\* Agent a has no phase-D1 row in this run
LacksDay1(a) == SelectSeq(Day1Of(db_responses), LAMBDA r : r.agent = a) = <<>>

\* C19 (Spec): when a later phase comes to an agent without a persisted
\* phase-D1 response, the prompt embeds the neutral placeholder (approval 5,
\* intent "ignore", verbatim "No initial response"), the agent is sent to the
\* generation client all the same, and the absence neither records an error
\* nor aborts the phase: an error is recorded only for what the generation or
\* the insert raised, and a valid answer is persisted.
C19_PlaceholderForMissingDay1 ==
    [][(pc = "agent" /\ phases[phase_idx] \in LATER_PHASES
          /\ LacksDay1(agents[agent_idx].id)) =>
          LET g == gen_log'[Len(gen_log')]
          IN  /\ Len(gen_log') = Len(gen_log) + 1
              /\ g.agent = agents[agent_idx].id
              /\ g.phase_idx = phase_idx
              /\ g.prompt.base.day1_response.approval = 5
              /\ g.prompt.base.day1_response.intent = "ignore"
              /\ g.prompt.base.day1_response.verbatim.text = "No initial response"
              /\ (g.kind = "return"
                    /\ ~ViolatesUnique(db_responses, g.agent, phases[phase_idx])) =>
                    /\ errors' = errors
                    /\ Len(db_responses') = Len(db_responses) + 1
                    /\ Len(responses_data') = Len(responses_data) + 1
              /\ errors' # errors =>
                    /\ g.exc # None
                    /\ g.exc.class \in {"GeminiValidationError", "GeminiRateLimitError",
                                        "GeminiAPIError", "IntegrityError"}
              /\ raised' = None
              /\ pc' \in {"agent", "phase_end"}]_vars

C19_Witness ==
    /\ pc = "done"
    /\ phases = <<"D1", "D7">>
    /\ segment_agents = 2
    /\ Len(gen_log) = 4
    /\ gen_log[1].kind = "raise"
    /\ gen_log[2].kind = "return"
    /\ gen_log[3].agent = 1
    /\ gen_log[3].prompt.base.day1_response = NeutralPlaceholder
    /\ gen_log[3].kind = "return"
    /\ gen_log[3].exc = None
    /\ gen_log[4].prompt.base.day1_response.approval = 8
    /\ Len(errors) = 1
    /\ \E i \in 1..Len(db_responses) :
          db_responses[i].agent = 1 /\ db_responses[i].phase = "D7"

\* C20 (Spec): when the run holds no phase-D1 response as a later phase runs,
\* the social summary in the prompt of every agent of that phase is the text
\* that limited public discussion was observed, and the later-phase prompt of
\* every agent is rendered and sent all the same.
NoDay1Rows == SelectSeq(db_responses, LAMBDA r : r.phase = "D1") = <<>>

C20_LimitedDiscussionWithoutDay1 ==
    [][(pc = "agent" /\ phases[phase_idx] \in LATER_PHASES /\ NoDay1Rows) =>
          LET g == gen_log'[Len(gen_log')]
          IN  /\ social_summary = [limited |-> TRUE]
              /\ Len(gen_log') = Len(gen_log) + 1
              /\ g.agent = agents[agent_idx].id
              /\ g.prompt.base.renderer = "day7"
              /\ g.prompt.base.social_summary = [limited |-> TRUE]
              /\ g.prompt.base.stimulus = Stimulus
              /\ social_summary' = social_summary
              /\ raised' = None]_vars

C20_Witness ==
    /\ pc = "done"
    /\ phases = <<"D1", "D7">>
    /\ segment_agents = 2
    /\ Len(gen_log) = 4
    /\ gen_log[1].kind = "raise"
    /\ gen_log[2].kind = "raise"
    /\ gen_log[3].prompt.base.social_summary = LimitedDiscussion
    /\ gen_log[4].prompt.base.social_summary = LimitedDiscussion
    /\ gen_log[3].kind = "return"
    /\ gen_log[4].kind = "return"

\* C21 (Spec): when every agent of a phase failed (the batch is empty), the end
\* of the phase creates and modifies no RunAggregate: the aggregates after the
\* phase are those before it.
C21_EmptyBatchLeavesAggregates ==
    [][(pc = "phase_end" /\ FailuresIn(PhaseLog(phase_idx)) = Len(agents)) =>
          /\ responses_data = <<>>
          /\ db_aggregates' = db_aggregates]_vars

C21_Witness ==
    /\ pc = "done"
    /\ phases = <<"D1", "D7">>
    /\ segment_agents = 2
    /\ FailuresIn(PhaseLog(1)) = 0
    /\ FailuresIn(PhaseLog(2)) = 2
    /\ gen_log[3].kind = "raise"
    /\ gen_log[4].kind = "raise"
    /\ Cardinality(db_aggregates) = 1
    /\ \A g \in db_aggregates : g.phase = "D1" /\ g.response_count = 2

\* The rows persisted for agent a, in insertion order
RowsOf(a) == SelectSeq(db_responses, LAMBDA r : r.agent = a)

\* Every agent's memory log holds one line per persisted response of the agent,
\* in the order the responses were persisted
MemoryMatchesRows ==
    \A a \in AgentIds :
        /\ Len(db_memory[a]) = Len(RowsOf(a))
        /\ \A k \in 1..Len(db_memory[a]) :
              db_memory[a][k] = [phase |-> RowsOf(a)[k].phase,
                                 scenario |-> Stimulus.scenario,
                                 intent |-> RowsOf(a)[k].data.intent,
                                 approval |-> RowsOf(a)[k].data.approval]

\* A step leaves every agent's memory log alone or appends lines to it
MemoryExtends ==
    \A a \in AgentIds : IsPrefix(db_memory[a], db_memory'[a])

\* C22 (Spec): agent memory is append-only: every step extends each agent's
\* memory log (no earlier line rewritten or deleted), and the log holds exactly
\* one line for each (agent, phase) pair whose response was persisted.
C22_MemoryAppendOnly ==
    /\ []MemoryMatchesRows
    /\ [][MemoryExtends]_vars

C22_Witness ==
    /\ pc = "done"
    /\ phases = <<"D1", "D7">>
    /\ segment_agents = 2
    /\ gen_log[1].kind = "raise"
    /\ Len(db_memory[1]) = 1
    /\ db_memory[1][1].phase = "D7"
    /\ Len(db_memory[2]) = 2
    /\ db_memory[2][1].phase = "D1"
    /\ db_memory[2][2].phase = "D7"
    /\ db_memory[2][2].approval = 3

\* C23 (SpecContract): every AgentResponse a run persisted satisfies the
\* response contract: approval in 1..10, all 8 emotion scores present and in
\* [0,1], intent one of the 8 labels, intent_confidence in [0,1], verbatim of
\* at most 500 characters; an over-length verbatim is rejected and never
\* stored cut to length.
C23_PersistedRowsMeetContract ==
    /\ \A i \in 1..Len(db_responses) :
          LET d == db_responses[i].data
          IN  /\ d.approval \in 1..10
              /\ DOMAIN d.emotions =
                    {"joy", "trust", "fear", "surprise", "sadness", "disgust",
                     "anger", "anticipation"}
              /\ \A e \in DOMAIN d.emotions : d.emotions[e] \in 0..100
              /\ d.intent \in
                    {"share_positive", "share_negative", "engage_supportive",
                     "engage_critical", "ignore", "oppose_actively",
                     "purchase_intent", "seek_more_info"}
              /\ d.intent_confidence \in 0..100
              /\ d.verbatim.len <= 500
              /\ d.verbatim \in {p.verbatim :
                                   p \in {o.data : o \in {b \in backend : b.data # None}}}
    /\ \A k \in 1..Len(gen_log) :
          gen_log[k].kind = "return" <=> gen_log[k].exc = None

C23_Witness ==
    /\ pc = "done"
    /\ segment_agents = 2
    /\ Len(db_responses) = 1
    /\ db_responses[1].agent = 2
    /\ db_responses[1].data.verbatim.len = VERBATIM_MAX
    /\ gen_log[1].exc # None
    /\ gen_log[1].exc.class = "GeminiValidationError"
    /\ gen_log[1].exc.msg.error.fields = {"verbatim"}

\* C24 (SpecVal): a mapping whose emotions object lacks one of the 8 named
\* keys is refused by validate_agent_response: is_valid is false, there is no
\* normalized data, and the error names the emotions; the missing score is
\* never taken as 0.
C24_Case ==
    /\ client_result # None
    /\ client_input.first = None
    /\ \E k \in {"joy", "trust", "fear", "surprise", "sadness", "disgust",
                 "anger", "anticipation"} : k \notin DOMAIN client_input.data.emotions

C24_MissingEmotionFails ==
    C24_Case =>
        /\ client_result.is_valid = FALSE
        /\ client_result.data = None
        /\ client_result.error # None
        /\ "emotions" \in client_result.error.fields

C24_Witness ==
    /\ C24_Case
    /\ DOMAIN client_input.data.emotions = VALID_EMOTIONS \ {"anticipation"}
    /\ client_input.data.approval = 10
    /\ client_input.data.intent = "ignore"
    /\ client_input.data.intent_confidence = 100
    /\ client_input.data.verbatim.len = 0
    /\ client_result.error.fields = {"emotions"}

\* C25 (SpecVal): a mapping whose intent is not exactly one of the 8 labels (a
\* case variant, a padded label or a synonym included) is refused by
\* validate_agent_response, whatever its other fields.
C25_Case ==
    /\ client_result # None
    /\ client_input.first = None
    /\ client_input.data.intent \notin
          {"share_positive", "share_negative", "engage_supportive",
           "engage_critical", "ignore", "oppose_actively", "purchase_intent",
           "seek_more_info"}

C25_UnknownIntentFails ==
    C25_Case =>
        /\ client_result.is_valid = FALSE
        /\ client_result.data = None
        /\ client_result.error # None
        /\ "intent" \in client_result.error.fields

C25_Witness ==
    /\ C25_Case
    /\ client_input.data.intent = "Share_Positive"
    /\ client_input.data.approval = 1
    /\ client_input.data.emotions = AllEmotions(SCORE_MAX)
    /\ client_input.data.intent_confidence = 0
    /\ client_input.data.verbatim.len = VERBATIM_MAX
    /\ client_result.error.fields = {"intent"}

\* C26 (SpecVal): validate_agent_response is idempotent on its own output:
\* validating the normalized response of an accepted input succeeds and
\* returns that response unchanged.
C26_ValidateIdempotent ==
    (client_result # None /\ client_input.first # None) =>
        /\ client_input.first.is_valid
        /\ client_result.is_valid
        /\ client_result.error = None
        /\ client_result.data = client_input.first.data

C26_Witness ==
    /\ client_result # None
    /\ client_input.first # None
    /\ "hope" \in DOMAIN client_input.data.emotions
    /\ client_input.data.intent_confidence = SCORE_MAX
    /\ client_input.first.data # client_input.data
    /\ client_result.data = client_input.first.data

\* The aggregate of the phase just computed
AggregateNow == CHOOSE g \in db_aggregates : g.phase = phases[1]

RECURSIVE SumBuckets(_, _)
SumBuckets(f, keys) ==
    IF keys = {} THEN 0
    ELSE LET k == CHOOSE x \in keys : TRUE
         IN  f[k] + SumBuckets(f, keys \ {k})

\* C27 (SpecAgg): for a non-empty batch of validated responses the
\* approval_distribution has exactly the keys 1..10, each bucket counts the
\* responses with that approval (0 when there is none), the buckets sum to
\* response_count, and response_count is the size of the batch.
C27_DistributionCountsBatch ==
    pc = "aggregated" =>
        LET g == AggregateNow
            dist == g.approval_distribution
        IN  /\ DOMAIN dist = 1..10
            /\ \A a \in 1..10 :
                  dist[a] = Cardinality({i \in 1..Len(responses_data) :
                                            responses_data[i].approval = a})
            /\ SumBuckets(dist, DOMAIN dist) = g.response_count
            /\ g.response_count = Len(responses_data)

C27_Witness ==
    /\ pc = "aggregated"
    /\ Len(responses_data) = 3
    /\ responses_data[1].approval = 10
    /\ responses_data[2].approval = 1
    /\ responses_data[3].approval = 5
    /\ AggregateNow.avg_approval = 533
    /\ AggregateNow.approval_distribution[10] = 1
    /\ AggregateNow.approval_distribution[1] = 1
    /\ AggregateNow.approval_distribution[5] = 1
    /\ AggregateNow.approval_distribution[7] = 0
    /\ AggregateNow.response_count = 3

\* C28 (SpecAgg): the representative quotes of a non-empty batch are the first
\* and the last element of a stable sort by approval descending: most_positive
\* is the earliest response of maximal approval, most_negative the latest
\* response of minimal approval.
C28_QuotesByStableSort ==
    pc = "aggregated" =>
        LET rs == responses_data
            idx == 1..Len(rs)
            hi == CHOOSE i \in idx :
                     /\ \A j \in idx : rs[j].approval <= rs[i].approval
                     /\ \A j \in idx : rs[j].approval = rs[i].approval => i <= j
            lo == CHOOSE i \in idx :
                     /\ \A j \in idx : rs[j].approval >= rs[i].approval
                     /\ \A j \in idx : rs[j].approval = rs[i].approval => i >= j
            q == AggregateNow.representative_quotes
        IN  /\ Len(q) = 2
            /\ q[1] = [type |-> "most_positive", approval |-> rs[hi].approval,
                       text |-> rs[hi].verbatim]
            /\ q[2] = [type |-> "most_negative", approval |-> rs[lo].approval,
                       text |-> rs[lo].verbatim]

C28_Witness ==
    /\ pc = "aggregated"
    /\ Len(responses_data) = 2
    /\ responses_data[1].approval = 1
    /\ responses_data[1].verbatim.text = "c"
    /\ responses_data[2].approval = 1
    /\ responses_data[2].verbatim.text = "d"
    /\ AggregateNow.representative_quotes[1].text.text = "c"
    /\ AggregateNow.representative_quotes[2].text.text = "d"

\* There is at most one RunAggregate per phase of the run
OneAggregatePerPhase ==
    \A g, h \in db_aggregates : g.phase = h.phase => g = h

\* The batches _compute_aggregates was called with for phase p so far
ComputedFor(p) == SelectSeq(gen_log, LAMBDA c : c.phase = p)

\* A call of _compute_aggregates leaves the aggregates of the other phases
\* alone and leaves for its own phase one record that counts the new batch
\* and nothing else; called again with the batch of the last call for the
\* phase, it leaves every record as it was.
RecomputeReplaces ==
    (pc = "phase_end" /\ pc' = "aggregated") =>
        LET p == phases[1]
            rs == responses_data
            new == {g \in db_aggregates' : g.phase = p}
            before == ComputedFor(p)
        IN  /\ {g \in db_aggregates' : g.phase # p} = {g \in db_aggregates : g.phase # p}
            /\ Cardinality(new) = 1
            /\ \A g \in new :
                  /\ g.response_count = Len(rs)
                  /\ \A a \in 1..10 :
                        g.approval_distribution[a] =
                           Cardinality({i \in 1..Len(rs) : rs[i].approval = a})
                  /\ \A i \in DOMAIN g.intent_counts_json :
                        g.intent_counts_json[i] =
                           Cardinality({k \in 1..Len(rs) : rs[k].intent = i})
                  /\ DOMAIN g.intent_counts_json = {rs[k].intent : k \in 1..Len(rs)}
            /\ (before # <<>> /\ before[Len(before)].batch = rs) =>
                  db_aggregates' = db_aggregates

\* C29 (SpecAgg): in every reachable state there is at most one RunAggregate
\* per (run, phase); computing the aggregate of a phase again replaces the
\* earlier record by the snapshot of the new batch and never adds to it; and
\* computing twice from the same batch leaves what computing once left.
C29_AggregateIsSnapshot ==
    /\ []OneAggregatePerPhase
    /\ [][RecomputeReplaces]_vars

C29_Witness ==
    /\ pc = "aggregated"
    /\ executions = 2
    /\ gen_log[1].phase = "D7"
    /\ Len(gen_log[1].batch) = 3
    /\ gen_log[2].phase = "D7"
    /\ Len(gen_log[2].batch) = 1
    /\ gen_log[2].batch[1].intent = gen_log[1].batch[1].intent
    /\ Cardinality(db_aggregates) = 1
    /\ AggregateNow.response_count = 1

\* C30 (Spec): phases run strictly in the order of the phase list: the
\* generation calls are made phase by phase, and while an agent of a phase is
\* being processed every agent of every earlier phase has been processed (its
\* response persisted or its failure recorded) and the aggregate step of that
\* earlier phase has run.
C30_PhasesInListOrder ==
    /\ \A k \in 1..(Len(gen_log) - 1) : gen_log[k].phase_idx <= gen_log[k + 1].phase_idx
    /\ \A k \in 1..Len(gen_log) : gen_log[k].phase_idx <= phase_idx
    /\ Len(errors) = FailuresIn(gen_log)
    /\ Len(db_responses) = Len(gen_log) - FailuresIn(gen_log)
    /\ pc \in {"agent", "phase_end"} =>
          \A j \in 1..(phase_idx - 1) :
              /\ Len(PhaseLog(j)) = segment_agents
              /\ \A a \in 1..segment_agents : PhaseLog(j)[a].agent = a
              /\ FailuresIn(PhaseLog(j)) < segment_agents =>
                    \E g \in db_aggregates : g.phase = phases[j]

C30_Witness ==
    /\ pc = "agent"
    /\ phases = <<"D7", "D1">>
    /\ phase_idx = 2
    /\ agent_idx = 2
    /\ segment_agents = 2
    /\ Len(gen_log) = 3
    /\ FailuresIn(PhaseLog(1)) = 1
    /\ \E g \in db_aggregates : g.phase = "D7" /\ g.response_count = 1

\* C31 (SpecGen): when on every attempt the backend text is not parseable as
\* JSON and the content of its fenced JSON block is not parseable either, each
\* attempt counts as a validation failure and generate_agent_response finally
\* raises GeminiValidationError, never GeminiAPIError or GeminiRateLimitError.
C31_Case ==
    /\ client_result # None
    /\ \A i \in 1..(client_input.max_retries + 1) :
          client_input.script[i].form = "fenced_garbage"

C31_FencedGarbageIsValidationFailure ==
    C31_Case =>
        /\ client_result.kind = "raise"
        /\ client_result.exc.class = "GeminiValidationError"

\* The AgentResponse rows persisted for phase p of the run
RowsOfPhase(p) == SelectSeq(db_responses, LAMBDA r : r.phase = p)

\* C32 (Spec): at the end of a run, every RunAggregate's response_count is the
\* number of AgentResponse rows persisted for its (run, phase), for any phase
\* list (one that repeats a phase included) and any pattern of per-agent
\* failures.
C32_CountMatchesRows ==
    pc = "done" =>
        \A g \in db_aggregates : g.response_count = Len(RowsOfPhase(g.phase))

\* C33 (SpecFmt): in the phase-1 prompt a numeric attitude score is labelled
\* positive if it is above 0.6, negative if it is below 0.4 and neutral
\* otherwise; scores of exactly 0.4 and exactly 0.6 are labelled neutral.
C33_LabelsByThresholds ==
    client_result # None =>
        \A i \in 1..Len(client_input.attitudes) :
            LET score == client_input.attitudes[i]
                line == client_result.lines[i]
            IN  score.num =>
                   line.sentiment = IF score.h > 60 THEN "positive"
                                    ELSE IF score.h < 40 THEN "negative"
                                    ELSE "neutral"

\* A step that records a per-agent error leaves the persisted rows, every
\* persisted memory log and the loaded agents as they were, and the error it
\* records is that of the agent and phase being processed
ErrorLeavesStateAlone ==
    Len(errors') = Len(errors) + 1 =>
        /\ pc = "agent"
        /\ db_responses' = db_responses
        /\ db_memory' = db_memory
        /\ agents' = agents
        /\ responses_data' = responses_data
        /\ errors'[Len(errors')].agent = agents[agent_idx].id
        /\ errors'[Len(errors')].phase = phases[phase_idx]
        /\ gen_log'[Len(gen_log')].exc # None

RowsBeside(rows, a, p) == SelectSeq(rows, LAMBDA r : r.agent # a \/ r.phase # p)

\* The pass of agent a through a phase writes a's memory log and the response
\* row of (a, phase) and nothing else: every other agent's memory log and
\* loaded copy, every other response row, the traits of every agent (a's are
\* saved back as loaded), the aggregates and the run are as before, and the
\* prompt it sent carries the run's stimulus
OnlyOwnRecords ==
    pc = "agent" =>
        LET a == agents[agent_idx].id
            p == phases[phase_idx]
            g == gen_log'[Len(gen_log')]
        IN  /\ Len(gen_log') = Len(gen_log) + 1
            /\ g.agent = a
            /\ \A b \in AgentIds \ {a} : db_memory'[b] = db_memory[b]
            /\ \A i \in (1..Len(agents)) \ {agent_idx} : agents'[i] = agents[i]
            /\ RowsBeside(db_responses', a, p) = RowsBeside(db_responses, a, p)
            /\ Len(db_responses') <= Len(db_responses) + 1
            /\ db_traits' = db_traits
            /\ agents'[agent_idx].traits_json = db_traits[a]
            /\ g.prompt.base.stimulus = Stimulus
            /\ db_aggregates' = db_aggregates
            /\ run' = run

\* C35 (Spec): processing agent a in a phase changes only a's memory log and
\* the response record of (run, a, phase): the memory logs and response
\* records of every other agent, the traits of all agents and the stimulus are
\* unchanged by that step.
C35_AgentStepWritesOwnRecords == [][OnlyOwnRecords]_vars

C35_Witness ==
    /\ pc = "done"
    /\ phases = <<"D1", "D7">>
    /\ segment_agents = 2
    /\ errors = <<>>
    /\ Len(db_memory[1]) = 2
    /\ Len(db_memory[2]) = 2
    /\ db_memory[1][1].approval = 8
    /\ db_memory[2][1].approval = 3
    /\ db_memory[1][2].approval = 3
    /\ db_memory[2][2].approval = 8
    /\ db_traits[1] # db_traits[2]
    /\ db_traits[1] = TraitsOf(1)

\* The rows persisted before the phase at position j of the phase list began:
\* one row per pass of an earlier position that let nothing out
RowsBeforePhase(j) ==
    SubSeq(db_responses, 1,
           Len(SelectSeq(gen_log, LAMBDA g : g.phase_idx < j /\ g.exc = None)))

\* The social summary of the phase-D1 rows persisted before position j began
SettledSummary(j) == build_social_summary(SummaryInput(Day1Of(RowsBeforePhase(j))))

\* Every prompt sent in a later phase embeds the summary of the phase-D1 rows
\* that were persisted when the phase began, all of them
SummaryFromSettledDay1 ==
    \A k \in 1..Len(gen_log) :
        phases[gen_log[k].phase_idx] \in LATER_PHASES =>
            /\ gen_log[k].prompt.base.social_summary = SettledSummary(gen_log[k].phase_idx)
            /\ \A m \in 1..Len(gen_log) :
                  gen_log[m].phase_idx = gen_log[k].phase_idx =>
                     gen_log[m].prompt.base.social_summary =
                        gen_log[k].prompt.base.social_summary

\* The pass of an agent leaves the phase's summary and Day 1 rows as computed
\* at the start of the phase, whatever it persists
SummaryKeptWithinPhase ==
    pc = "agent" =>
        /\ social_summary' = social_summary
        /\ day1_responses' = day1_responses
        /\ phases[phase_idx] \in LATER_PHASES =>
              gen_log'[Len(gen_log')].prompt.base.social_summary = social_summary

\* C36 (Spec): within one later phase all agents receive the identical social
\* summary, computed once from the complete set of phase-D1 responses persisted
\* for the run before any agent of that phase is processed; responses written
\* during the phase never change the summary another agent of the phase sees.
C36_SummaryIsSettledSnapshot ==
    /\ []SummaryFromSettledDay1
    /\ [][SummaryKeptWithinPhase]_vars

C36_Witness ==
    /\ pc = "done"
    /\ phases = <<"D1", "D7">>
    /\ segment_agents = 2
    /\ Len(gen_log) = 4
    /\ gen_log[1].exc = None
    /\ gen_log[2].exc = None
    /\ gen_log[3].exc = None
    /\ Len(db_responses) >= 3
    /\ db_responses[1].data.approval = 8
    /\ db_responses[2].data.approval = 3
    /\ db_responses[3].data.approval = 8
    /\ gen_log[3].prompt.base.social_summary.avg_tenths = 55
    /\ gen_log[4].prompt.base.social_summary.avg_tenths = 55
    /\ gen_log[4].prompt.base.social_summary.sentiment = "Mixed"

\* A finished call made at most max_retries + 1 backend calls, one prompt per
\* call and one wait per retry; each of its retries followed a contract
\* failure or a raised error, both counted against the one budget; and it
\* raised before the budget was spent only for text without any JSON
BudgetKept ==
    client_result # None =>
        LET m == client_input.max_retries
            n == client_result.calls
            script == client_input.script
        IN  /\ n \in 1..(m + 1)
            /\ client_result.kind \in {"return", "raise"}
            /\ Len(client_result.prompts) = n
            /\ Len(client_result.waits) = n - 1
            /\ Cardinality({k \in 1..(n - 1) : InvalidJson(script[k])})
                  + Cardinality({k \in 1..(n - 1) :
                                    script[k].form \in {"raise", "fenced_garbage"}})
                  = n - 1
            /\ (client_result.kind = "raise" /\ n < m + 1) =>
                  script[n].form = "garbage"

\* C37 (SpecGenFair): every call of generate_agent_response ends, returning a
\* validated response or raising, after at most max_retries + 1 backend calls,
\* for every interleaving of contract-validation failures and transport
\* failures: both kinds of retry draw on the same attempt budget.
C37_SingleAttemptBudget ==
    /\ []BudgetKept
    /\ <>(client_result # None)

C37_Witness ==
    /\ client_result # None
    /\ client_input.max_retries = 2
    /\ client_input.script =
          <<BackendRaise(ResetText), BackendJson(PayloadBad), BackendRaise(QuotaText)>>
    /\ client_result.kind = "raise"
    /\ client_result.exc.class = "GeminiRateLimitError"
    /\ client_result.calls = 3
    /\ client_result.waits = <<1, 1>>
    /\ Len(client_result.prompts[3].corrections) = 1

\* The memory lines a run appended for agent a: one per row it persisted
LinesOf(rows, a) ==
    LET mine == SelectSeq(rows, LAMBDA r : r.agent = a)
    IN  [k \in 1..Len(mine) |-> MemoryLine(mine[k].phase, mine[k].data)]

\* C38 (SpecTwoRuns): when two runs over the same segment execute
\* concurrently, each orchestrator holding its own loaded copy of the agents,
\* no memory update is lost: after both runs have finished, each agent's
\* persisted memory log contains every line that either run appended for it.
C38_NoMemoryUpdateLost ==
    (other # None /\ pc = "done" /\ other.pc = "done") =>
        \A a \in 1..segment_agents :
            LET here == LinesOf(db_responses, a)
                there == LinesOf(other.db_responses, a)
            IN  /\ \A k \in 1..Len(here) :
                      \E j \in 1..Len(db_memory[a]) : db_memory[a][j] = here[k]
                /\ \A k \in 1..Len(there) :
                      \E j \in 1..Len(db_memory[a]) : db_memory[a][j] = there[k]
                /\ Len(db_memory[a]) >= Len(here) + Len(there)

====
